---- MODULE Spec2Model ----
(***************************************************************************)
(* Model of database/init_db.py: the SQLite provisioner of the to-do list  *)
(* application.  The script is a straight-line program; each statement of  *)
(* it that touches the database file, a connection or a sidecar file is    *)
(* one action, and `pc' is the script's position.                          *)
(*                                                                         *)
(* The database file is modelled as the record `db' (what is persisted)    *)
(* and the run's open transaction as `txn' (the row data the main          *)
(* connection sees and has not committed yet).  Python's sqlite3 module    *)
(* opens a transaction implicitly before INSERT/REPLACE statements only;   *)
(* the CREATE statements of the script run before any of them and so are   *)
(* persisted as they execute.                                              *)
(***************************************************************************)
EXTENDS Integers, Sequences, FiniteSets, TLC

VARIABLES
    db,         \* the persisted database file
    txn,        \* row data as seen by the main connection (pending transaction)
    pc,         \* position of the script
    k,          \* index of the next metadata upsert / sample todo
    env,        \* SEED_TODOS as read by os.getenv at line 108
    seed_flag,  \* the script's seed_flag
    clock,      \* CURRENT_TIMESTAMP, in seconds
    probeLog,   \* statements executed on the probe connection (lines 31-33)
    mainLog,    \* statements executed on the main connection (line 41)
    raised,     \* the step whose exception the last step of the run raised
    dirExists,  \* db_visualizer exists
    runs,       \* outcome of every run started so far
    origin,     \* the database file as the first run found it
    atStart,    \* the persisted database as the current run found it
    lastStmt    \* the last UPDATE a client executed on todos

vars == <<db, txn, pc, k, env, seed_flag, clock, probeLog, mainLog, raised,
          dirExists, runs, origin, atStart, lastStmt>>

----------------------------------------------------------------------------
(* Bounds *)

MaxRuns == 2
MaxUpdates == 2

----------------------------------------------------------------------------
(* Strings: SEED_TODOS is a sequence of characters *)

UpperChars == <<"A","B","C","D","E","F","G","H","I","J","K","L","M",
                "N","O","P","Q","R","S","T","U","V","W","X","Y","Z">>
LowerChars == <<"a","b","c","d","e","f","g","h","i","j","k","l","m",
                "n","o","p","q","r","s","t","u","v","w","x","y","z">>
Whitespace == {" ", "\t", "\n", "\r"}

LowerChar(c) ==
    IF \E i \in DOMAIN UpperChars : UpperChars[i] = c
    THEN LowerChars[CHOOSE i \in DOMAIN UpperChars : UpperChars[i] = c]
    ELSE c

\* str.lower()
Lower(s) == [i \in DOMAIN s |-> LowerChar(s[i])]

\* str.strip(): drop leading and trailing whitespace
RECURSIVE LStrip(_)
LStrip(s) ==
    IF s # <<>> /\ Head(s) \in Whitespace THEN LStrip(Tail(s)) ELSE s

RECURSIVE RStrip(_)
RStrip(s) ==
    IF s # <<>> /\ s[Len(s)] \in Whitespace
    THEN RStrip(SubSeq(s, 1, Len(s) - 1))
    ELSE s

Strip(s) == RStrip(LStrip(s))

Truthy == { <<"1">>, <<"t","r","u","e">>, <<"y","e","s">>, <<"y">> }

\* os.getenv(name, default)
GetEnv(e, default) == IF e.set THEN e.val ELSE default

\* line 108
SeedFlag(e) == Lower(Strip(GetEnv(e, <<>>))) \in Truthy

Unset == [set |-> FALSE, val |-> <<>>]
EnvVar(s) == [set |-> TRUE, val |-> s]

\* The values of SEED_TODOS a run is started with
EnvValues ==
    { Unset,
      EnvVar(<<"1">>),
      EnvVar(<<"T","r","u","e">>),
      EnvVar(<<" ","y","e","s","\n">>),
      EnvVar(<<"o","n">>) }

----------------------------------------------------------------------------
(* The database *)

Tables == {"app_info", "users", "todos"}

\* A table is absent, has the definition the script gives it, or has another
\* definition under the same name.  The other definitions used here are:
\*   app_info: the same columns, key without UNIQUE;
\*   users:    no email column;
\*   todos:    an additional nullable column.
\* None of them makes a statement of the script fail.
Defs == {"absent", "script", "legacy"}

Metadata ==
    << [key |-> "project_name", value |-> "database"],
       [key |-> "version",      value |-> "0.1.0"],
       [key |-> "author",       value |-> "John Doe"],
       [key |-> "description",  value |-> ""] >>

sample_todos ==
    << [title |-> "Buy groceries",  description |-> "Milk, eggs, bread", completed |-> 0],
       [title |-> "Finish project", description |-> "Complete the todo app backend", completed |-> 0],
       [title |-> "Read a book",    description |-> "Spend 30 minutes reading", completed |-> 0] >>

NoData == [app_info |-> <<>>, app_seq |-> 0, todos |-> <<>>, todo_seq |-> 0]

NoFile ==
    [exists |-> FALSE,
     schema |-> [t \in Tables |-> "absent"],
     trigger |-> FALSE,
     data |-> NoData]

\* The largest id of the rows, 0 for no row
MaxRowId(rows) ==
    IF rows = <<>> THEN 0
    ELSE LET i == CHOOSE i \in DOMAIN rows :
                     \A j \in DOMAIN rows : rows[j].id <= rows[i].id
         IN rows[i].id

Max2(a, b) == IF a >= b THEN a ELSE b

\* INTEGER PRIMARY KEY AUTOINCREMENT: one more than the largest rowid the
\* table ever held
NextId(rows, seq) == Max2(seq, MaxRowId(rows)) + 1


\* An INSERT OR REPLACE that never deletes the conflicting row
Upsert_NoReplace(data, def, key, value, now) ==
    LET id == NextId(data.app_info, data.app_seq)
    IN [data EXCEPT
          !.app_info = Append(@, [id |-> id, key |-> key, value |-> value,
                                  created_at |-> now]),
          !.app_seq = id]

\* INSERT OR IGNORE in the place of INSERT OR REPLACE
Upsert_Ignore(data, def, key, value, now) ==
    IF \E i \in DOMAIN data.app_info : data.app_info[i].key = key
    THEN data
    ELSE Upsert_NoReplace(data, def, key, value, now)

\* line 90-105: INSERT OR REPLACE INTO app_info (key, value) VALUES (?, ?).
\* With key UNIQUE the conflicting row is deleted and a new row is inserted;
\* id and created_at are not named by the statement and take their defaults.
Upsert(data, def, key, value, now) ==
    LET Other(r) == r.key # key
        kept == IF def = "script" THEN SelectSeq(data.app_info, Other)
                ELSE data.app_info
        id == NextId(data.app_info, data.app_seq)
    IN [data EXCEPT
          !.app_info = Append(kept, [id |-> id, key |-> key, value |-> value,
                                     created_at |-> now]),
          !.app_seq = id]

\* An insert that replaces what the table holds
InsertTodo_Overwrite(data, t, now) ==
    LET id == NextId(data.todos, data.todo_seq)
    IN [data EXCEPT
          !.todos = << [id |-> id, title |-> t.title,
                        description |-> t.description,
                        completed |-> t.completed,
                        created_at |-> now, updated_at |-> now] >>,
          !.todo_seq = id]

\* line 120-123: INSERT INTO todos (title, description, completed) VALUES (?, ?, ?)
InsertTodo(data, t, now) ==
    LET id == NextId(data.todos, data.todo_seq)
    IN [data EXCEPT
          !.todos = Append(@, [id |-> id, title |-> t.title,
                               description |-> t.description,
                               completed |-> t.completed,
                               created_at |-> now, updated_at |-> now]),
          !.todo_seq = id]

\* Seeding without the emptiness test
ShouldSeed_Always(flag, existing_count) == flag

\* line 109, 113: seed_flag and existing_count == 0
ShouldSeed(flag, existing_count) == flag /\ existing_count = 0

\* CREATE TABLE after DROP TABLE IF EXISTS
CreateTable_Replace(schema, t) == [schema EXCEPT ![t] = "script"]

\* line 48-77: CREATE TABLE IF NOT EXISTS
CreateTableIfNotExists(schema, t) ==
    IF schema[t] = "absent" THEN [schema EXCEPT ![t] = "script"] ELSE schema

\* line 80-87: CREATE TRIGGER IF NOT EXISTS trg_todos_updated_at
CreateTriggerIfNotExists(trigger) == TRUE

\* The trigger body without its WHERE clause
TriggerBody_NoWhere(rows, newId, now) ==
    [i \in DOMAIN rows |-> [rows[i] EXCEPT !.updated_at = now]]

\* line 85: the trigger body, run once for the updated row NEW
TriggerBody(rows, newId, now) ==
    [i \in DOMAIN rows |->
        IF rows[i].id = newId THEN [rows[i] EXCEPT !.updated_at = now]
        ELSE rows[i]]

\* A client's UPDATE todos SET completed = c [, updated_at = u] WHERE id = x
\* on a connection of its own; the AFTER UPDATE trigger of line 81-86, when
\* the database has it, runs for the updated row.
ExecUpdate(rows, trigger, stmt, now) ==
    LET set == [i \in DOMAIN rows |->
                  IF rows[i].id = stmt.id
                  THEN [rows[i] EXCEPT
                          !.completed = stmt.completed,
                          !.updated_at = IF stmt.supplied THEN stmt.updated_at ELSE @]
                  ELSE rows[i]]
        hit == \E i \in DOMAIN rows : rows[i].id = stmt.id
    IN IF trigger /\ hit THEN TriggerBody(set, stmt.id, now) ELSE set

\* A connection in autocommit mode: every statement is persisted at once
AfterFault_Autocommit(persisted, pending) == pending

\* The process dies with a transaction open (nothing between line 90 and
\* line 130 commits): SQLite rolls the transaction back.
AfterFault(persisted, pending) == persisted

\* line 130: conn.commit()
AfterCommit(persisted, pending) == pending

----------------------------------------------------------------------------
(* States the database file can be found in *)

AppInfoPrior ==
    { [def |-> "absent", rows |-> <<>>],
      [def |-> "script", rows |-> <<>>],
      [def |-> "script",
       rows |-> << [id |-> 1, key |-> "theme", value |-> "dark", created_at |-> 0],
                   [id |-> 2, key |-> "version", value |-> "0.0.9", created_at |-> 0] >>],
      [def |-> "legacy",
       rows |-> << [id |-> 1, key |-> "project_name", value |-> "old name",
                    created_at |-> 0] >>] }

UsersPrior == Defs

OldTodo ==
    [id |-> 1, title |-> "Call home", description |-> "", completed |-> 1,
     created_at |-> 0, updated_at |-> 0]

TodosPrior ==
    { [def |-> "absent", trigger |-> FALSE, rows |-> <<>>],
      [def |-> "script", trigger |-> FALSE, rows |-> <<>>],
      [def |-> "script", trigger |-> TRUE,  rows |-> <<OldTodo>>],
      [def |-> "legacy", trigger |-> FALSE, rows |-> <<OldTodo>>] }

File(a, u, t) ==
    [exists |-> TRUE,
     schema |-> [x \in Tables |->
                   CASE x = "app_info" -> a.def
                     [] x = "users" -> u
                     [] x = "todos" -> t.def],
     trigger |-> t.trigger,
     data |-> [app_info |-> a.rows, app_seq |-> Len(a.rows),
               todos |-> t.rows, todo_seq |-> Len(t.rows)]]

PriorStates ==
    {NoFile} \cup
    { File(a, u, t) : a \in AppInfoPrior, u \in UsersPrior, t \in TodosPrior }

----------------------------------------------------------------------------
(* The script *)

NoStmt == [seq |-> 0, id |-> 0, completed |-> 0, supplied |-> FALSE,
           updated_at |-> 0, time |-> 0]

Init ==
    /\ db \in PriorStates
    /\ txn = db.data
    /\ pc = "idle"
    /\ k = 1
    /\ env = Unset
    /\ seed_flag = FALSE
    /\ clock = 1
    /\ probeLog = <<>>
    /\ mainLog = <<>>
    /\ raised = "none"
    /\ dirExists \in BOOLEAN
    /\ runs = <<>>
    /\ origin = db
    /\ atStart = db
    /\ lastStmt = NoStmt

Ended == pc \in {"completed", "faulted", "aborted"}

Exec(stmt) == mainLog' = Append(mainLog, stmt)

EndRun(outcome) == runs' = [runs EXCEPT ![Len(runs)] = outcome]

\* line 23-38: the process starts, some time after the last one ended;
\* os.path.exists(DB_NAME)
Start ==
    /\ pc = "idle"
    /\ Len(runs) < MaxRuns
    /\ \E d \in {0, 1} : clock' = clock + d
    /\ runs' = Append(runs, "running")
    /\ atStart' = db
    /\ txn' = db.data
    /\ k' = 1
    /\ env' = Unset
    /\ seed_flag' = FALSE
    /\ probeLog' = <<>>
    /\ mainLog' = <<>>
    /\ raised' = "none"
    /\ pc' = IF db.exists THEN "probe" ELSE "connect"
    /\ UNCHANGED <<db, dirExists, origin, lastStmt>>

\* line 30-34: the probe connection runs SELECT 1 and is closed
ProbeOk ==
    /\ pc = "probe"
    /\ probeLog' = <<"SELECT 1">>
    /\ raised' = "none"
    /\ pc' = "connect"
    /\ UNCHANGED <<db, txn, k, env, seed_flag, clock, mainLog,
                   dirExists, runs, origin, atStart, lastStmt>>

\* line 35-36: connect or execute raised; a warning is printed
ProbeFail ==
    /\ pc = "probe"
    /\ \E executed \in BOOLEAN :
          probeLog' = IF executed THEN <<"SELECT 1">> ELSE <<>>
    /\ raised' = "probe"
    /\ pc' = "connect"
    /\ UNCHANGED <<db, txn, k, env, seed_flag, clock, mainLog,
                   dirExists, runs, origin, atStart, lastStmt>>

\* line 41-42: sqlite3.connect creates the file when it is absent
Connect ==
    /\ pc = "connect"
    /\ db' = [db EXCEPT !.exists = TRUE]
    /\ txn' = db.data
    /\ raised' = "none"
    /\ pc' = "pragma"
    /\ UNCHANGED <<k, env, seed_flag, clock, probeLog, mainLog,
                   dirExists, runs, origin, atStart, lastStmt>>

\* line 45
Pragma ==
    /\ pc = "pragma"
    /\ Exec("PRAGMA foreign_keys = ON")
    /\ pc' = "create_app_info"
    /\ UNCHANGED <<db, txn, k, env, seed_flag, clock, probeLog, raised,
                   dirExists, runs, origin, atStart, lastStmt>>

CreateTable(at, t, next) ==
    /\ pc = at
    /\ Exec("CREATE TABLE IF NOT EXISTS")
    /\ db' = [db EXCEPT !.schema = CreateTableIfNotExists(@, t)]
    /\ pc' = next
    /\ UNCHANGED <<txn, k, env, seed_flag, clock, probeLog, raised,
                   dirExists, runs, origin, atStart, lastStmt>>

\* line 48-55
CreateAppInfo == CreateTable("create_app_info", "app_info", "create_users")

\* line 58-65
CreateUsers == CreateTable("create_users", "users", "create_todos")

\* line 68-77
CreateTodos == CreateTable("create_todos", "todos", "create_trigger")

\* line 80-87
CreateTrigger ==
    /\ pc = "create_trigger"
    /\ Exec("CREATE TRIGGER IF NOT EXISTS")
    /\ db' = [db EXCEPT !.trigger = CreateTriggerIfNotExists(@)]
    /\ k' = 1
    /\ pc' = "upsert"
    /\ UNCHANGED <<txn, env, seed_flag, clock, probeLog, raised,
                   dirExists, runs, origin, atStart, lastStmt>>

\* line 90-105: the k-th of the four upserts
UpsertMetadata ==
    /\ pc = "upsert"
    /\ Exec("INSERT OR REPLACE INTO app_info")
    /\ txn' = Upsert(txn, db.schema["app_info"], Metadata[k].key,
                     Metadata[k].value, clock)
    /\ IF k < Len(Metadata)
       THEN k' = k + 1 /\ pc' = "upsert"
       ELSE k' = 1 /\ pc' = "seed"
    /\ UNCHANGED <<db, env, seed_flag, clock, probeLog, raised,
                   dirExists, runs, origin, atStart, lastStmt>>

\* line 108-113, 125-128: read SEED_TODOS; count the todos when it is enabled
SeedCheck ==
    /\ pc = "seed"
    /\ \E e \in EnvValues :
          /\ env' = e
          /\ seed_flag' = SeedFlag(e)
          /\ IF SeedFlag(e)
             THEN /\ Exec("SELECT COUNT(*) FROM todos")
                  /\ pc' = IF ShouldSeed(SeedFlag(e), Len(txn.todos))
                           THEN "seed_insert" ELSE "commit"
             ELSE /\ pc' = "commit"
                  /\ UNCHANGED mainLog
    /\ k' = 1
    /\ UNCHANGED <<db, txn, clock, probeLog, raised,
                   dirExists, runs, origin, atStart, lastStmt>>

\* line 119-123: the k-th sample todo
SeedInsert ==
    /\ pc = "seed_insert"
    /\ Exec("INSERT INTO todos")
    /\ txn' = InsertTodo(txn, sample_todos[k], clock)
    /\ IF k < Len(sample_todos)
       THEN k' = k + 1 /\ pc' = "seed_insert"
       ELSE k' = 1 /\ pc' = "commit"
    /\ UNCHANGED <<db, env, seed_flag, clock, probeLog, raised,
                   dirExists, runs, origin, atStart, lastStmt>>

\* line 130
Commit ==
    /\ pc = "commit"
    /\ db' = [db EXCEPT !.data = AfterCommit(@, txn)]
    /\ pc' = "stats"
    /\ UNCHANGED <<txn, k, env, seed_flag, clock, probeLog, mainLog, raised,
                   dirExists, runs, origin, atStart, lastStmt>>

\* line 133-143: the count queries, then conn.close()
Summarize ==
    /\ pc = "stats"
    /\ mainLog' = mainLog \o <<"SELECT COUNT(*) FROM sqlite_master",
                               "SELECT COUNT(*) FROM app_info",
                               "SELECT COUNT(*) FROM todos">>
    /\ pc' = "write_conn"
    /\ UNCHANGED <<db, txn, k, env, seed_flag, clock, probeLog, raised,
                   dirExists, runs, origin, atStart, lastStmt>>

DbSteps == {"connect", "pragma", "create_app_info", "create_users", "create_todos",
            "create_trigger", "upsert", "seed", "seed_insert", "commit", "stats"}

\* line 41-141: a statement on the main connection raises (disk full, locked
\* or corrupt file).  Nothing catches it: the process ends with a traceback
\* and the open transaction is rolled back.
Fault ==
    /\ pc \in DbSteps
    /\ db' = [db EXCEPT !.data = AfterFault(@, txn)]
    /\ raised' = pc
    /\ pc' = "faulted"
    /\ EndRun("faulted")
    /\ UNCHANGED <<txn, k, env, seed_flag, clock, probeLog, mainLog,
                   dirExists, origin, atStart, lastStmt>>

\* line 150-162: db_connection.txt is written, or a warning is printed
WriteConnTxt ==
    /\ pc = "write_conn"
    /\ \/ raised' = "none"
       \/ raised' = "write_conn"
    /\ pc' = "mkdir"
    /\ UNCHANGED <<db, txn, k, env, seed_flag, clock, probeLog, mainLog,
                   dirExists, runs, origin, atStart, lastStmt>>

\* line 168-170: os.makedirs is outside any try
EnsureDir ==
    /\ pc = "mkdir"
    /\ \/ /\ dirExists
          /\ raised' = "none"
          /\ pc' = "write_env"
          /\ UNCHANGED <<dirExists, runs>>
       \/ /\ ~dirExists
          /\ dirExists' = TRUE
          /\ raised' = "none"
          /\ pc' = "write_env"
          /\ UNCHANGED runs
       \/ /\ ~dirExists
          /\ raised' = "mkdir"
          /\ pc' = "aborted"
          /\ EndRun("aborted")
          /\ UNCHANGED dirExists
    /\ UNCHANGED <<db, txn, k, env, seed_flag, clock, probeLog, mainLog,
                   origin, atStart, lastStmt>>

\* line 172-177: db_visualizer/sqlite.env is written, or a warning is printed
WriteEnv ==
    /\ pc = "write_env"
    /\ \/ raised' = "none"
       \/ raised' = "write_env"
    /\ pc' = "cli"
    /\ UNCHANGED <<db, txn, k, env, seed_flag, clock, probeLog, mainLog,
                   dirExists, runs, origin, atStart, lastStmt>>

\* line 197-207: `which sqlite3', then the final message
DetectCli ==
    /\ pc = "cli"
    /\ \/ raised' = "none"
       \/ raised' = "cli"
    /\ pc' = "completed"
    /\ EndRun("completed")
    /\ UNCHANGED <<db, txn, k, env, seed_flag, clock, probeLog, mainLog,
                   dirExists, origin, atStart, lastStmt>>

\* line 206-207, or the traceback of an uncaught exception: the process is
\* gone, and with it its connections and variables
Exit ==
    /\ Ended
    /\ pc' = "idle"
    /\ txn' = db.data
    /\ k' = 1
    /\ env' = Unset
    /\ seed_flag' = FALSE
    /\ probeLog' = <<>>
    /\ mainLog' = <<>>
    /\ raised' = "none"
    /\ atStart' = db
    /\ UNCHANGED <<db, clock, dirExists, runs, origin, lastStmt>>

\* The statements of the script, in the order of the file
Script ==
    \/ Start \/ ProbeOk \/ ProbeFail \/ Connect \/ Pragma
    \/ CreateAppInfo \/ CreateUsers \/ CreateTodos \/ CreateTrigger
    \/ UpsertMetadata \/ SeedCheck \/ SeedInsert \/ Commit \/ Summarize
    \/ WriteConnTxt \/ EnsureDir \/ WriteEnv \/ DetectCli \/ Exit

Next == Script \/ Fault

Spec == Init /\ [][Next]_vars

----------------------------------------------------------------------------
(* Clients of the provisioned database *)

\* line 81-86: a client's UPDATE of one row of todos, which sets completed
\* and may supply an updated_at of its own (an earlier one)
ClientUpdate ==
    /\ pc = "idle"
    /\ db.schema["todos"] # "absent"
    /\ lastStmt.seq < MaxUpdates
    /\ \E d \in {0, 1} : clock' = clock + d
    /\ \E i \in DOMAIN db.data.todos, c \in {0, 1}, supplied \in BOOLEAN :
          /\ lastStmt' = [seq |-> lastStmt.seq + 1, id |-> db.data.todos[i].id,
                          completed |-> c,
                          supplied |-> supplied,
                          updated_at |-> 0, time |-> clock']
          /\ db' = [db EXCEPT !.data.todos =
                       ExecUpdate(@, db.trigger, lastStmt', clock')]
    /\ UNCHANGED <<txn, pc, k, env, seed_flag, probeLog, mainLog, raised,
                   dirExists, runs, origin, atStart>>

ClientFiles ==
    {NoFile} \cup
    { File(a, "script", t) :
        a \in {x \in AppInfoPrior : x.def = "absent"},
        t \in TodosPrior }

InitClient == Init /\ db \in ClientFiles /\ ~dirExists

\* The database is provisioned, by one run or more, and then used
NextClient == (Script /\ lastStmt.seq = 0) \/ ClientUpdate

SpecClient == InitClient /\ [][NextClient]_vars

----------------------------------------------------------------------------
(* Properties *)

MetaKeys == { Metadata[i].key : i \in DOMAIN Metadata }

\* The key and value columns of a table's rows, in rowid order
KV(rows) == [i \in DOMAIN rows |-> [key |-> rows[i].key, value |-> rows[i].value]]

\* The rows of app_info whose key is none of the four
Foreign(rows) ==
    LET NotMeta(r) == r.key \notin MetaKeys
    IN SelectSeq(rows, NotMeta)

RowsOfKey(rows, key) == { i \in DOMAIN rows : rows[i].key = key }

Completed == pc = "completed"

\* The run has executed conn.commit()
Committed == pc \in {"stats", "write_conn", "mkdir", "write_env", "cli",
                     "completed", "aborted"}

TargetSchema == [t \in Tables |-> "script"]

\* C1, as claimed: whatever the database file held, the tables included that
\* exist under the same names with other columns, a completed run leaves the
\* three tables with the script's column definitions, and the trigger.
C1_SameTerminalSchema ==
    Completed => db.schema = TargetSchema /\ db.trigger

\* C1, amended: a completed run leaves the three tables and the trigger; a
\* table that was absent has the script's definition, and a table that
\* existed keeps the definition it had.  So the terminal schema is the
\* script's whenever no table existed with another definition.
C1_SchemaAfterRun ==
    Completed =>
        /\ \A t \in Tables :
              db.schema[t] = IF atStart.schema[t] = "absent" THEN "script"
                             ELSE atStart.schema[t]
        /\ db.trigger

C1_Witness ==
    /\ Completed
    /\ atStart.schema["users"] = "legacy"
    /\ atStart.schema["app_info"] = "absent"
    /\ atStart.schema["todos"] = "script"
    /\ ~atStart.trigger
    /\ db.schema["app_info"] = "script"

FirstRunFresh == ~origin.exists

C3_ExactlyFourKeys ==
    (Committed /\ atStart.schema["app_info"] # "legacy") =>
        /\ Len(db.data.app_info) = Len(Metadata)
        /\ \A m \in DOMAIN Metadata :
              \E i \in DOMAIN db.data.app_info :
                 /\ db.data.app_info[i].key = Metadata[m].key
                 /\ db.data.app_info[i].value = Metadata[m].value

\* C3, amended: after the commit of a run on an app_info table of the
\* script's definition, app_info holds one row for each of the four keys,
\* with the fixed value; the rows with other keys are those the run found,
\* unchanged.
C3_FourKeysAndForeignRows ==
    (Committed /\ atStart.schema["app_info"] # "legacy") =>
        /\ \A m \in DOMAIN Metadata :
              /\ Cardinality(RowsOfKey(db.data.app_info, Metadata[m].key)) = 1
              /\ \A i \in RowsOfKey(db.data.app_info, Metadata[m].key) :
                    db.data.app_info[i].value = Metadata[m].value
        /\ Foreign(db.data.app_info) = Foreign(atStart.data.app_info)

C3_Witness ==
    /\ Completed
    /\ atStart.schema["app_info"] = "script"
    /\ \E i \in DOMAIN atStart.data.app_info :
          atStart.data.app_info[i].key = "version"
          /\ atStart.data.app_info[i].value # "0.1.0"
    /\ Foreign(atStart.data.app_info) # <<>>
    /\ Len(db.data.app_info) = 5

\* C4: with the seed toggle enabled and todos empty when the run starts,
\* todos holds the three sample rows, each with completed = 0, once the run
\* has committed.
C4_SeedsThreeRows ==
    (Committed /\ seed_flag /\ atStart.data.todos = <<>>) =>
        /\ Len(db.data.todos) = Len(sample_todos)
        /\ \A i \in DOMAIN db.data.todos :
              /\ db.data.todos[i].title = sample_todos[i].title
              /\ db.data.todos[i].completed = 0

C4_Witness ==
    /\ pc = "stats" /\ seed_flag /\ atStart.data.todos = <<>>
    /\ Len(db.data.todos) = 3
    /\ db.data.todos[3].title = "Read a book"

\* The toggle as the claim defines it: SEED_TODOS is set and equals one of
\* the four words when compared without regard to case
EnabledIgnoringCase(e) == e.set /\ Lower(e.val) \in Truthy

\* The toggle with surrounding whitespace dropped first
EnabledStrippedIgnoringCase(e) == e.set /\ Lower(Strip(e.val)) \in Truthy

\* C5, as claimed: unless SEED_TODOS equals, ignoring case, one of '1',
\* 'true', 'yes', 'y' and todos is empty when the run starts, the run leaves
\* todos as it found it.
C5_TodosUntouched ==
    (Committed /\ ~(EnabledIgnoringCase(env) /\ atStart.data.todos = <<>>)) =>
        db.data.todos = atStart.data.todos

\* C5, amended: unless SEED_TODOS, stripped of surrounding whitespace, equals
\* one of the four words ignoring case, and todos is empty when the run
\* starts, the run leaves todos as it found it.
C5_TodosUntouchedStripped ==
    (Committed /\ ~(EnabledStrippedIgnoringCase(env) /\ atStart.data.todos = <<>>)) =>
        /\ db.data.todos = atStart.data.todos
        /\ db.data.todo_seq = atStart.data.todo_seq

C5_Witness ==
    /\ Completed
    /\ EnabledStrippedIgnoringCase(env)
    /\ atStart.data.todos # <<>>
    /\ db.data.todos = atStart.data.todos

\* C6: in a database that has the trigger, an UPDATE of a row of todos
\* leaves the row's updated_at not earlier than the time of the UPDATE,
\* whether or not the statement supplied an updated_at, and leaves every
\* other row as it was.
C6_TriggerMaintainsUpdatedAt ==
    [][(lastStmt'.seq # lastStmt.seq /\ db.trigger) =>
          /\ DOMAIN db'.data.todos = DOMAIN db.data.todos
          /\ \A i \in DOMAIN db.data.todos :
                IF db.data.todos[i].id = lastStmt'.id
                THEN /\ db'.data.todos[i].updated_at >= lastStmt'.time
                     /\ lastStmt'.time = clock'
                     /\ db'.data.todos[i].completed = lastStmt'.completed
                ELSE db'.data.todos[i] = db.data.todos[i]]_vars

C6_Witness ==
    /\ lastStmt.seq > 0 /\ lastStmt.supplied
    /\ db.trigger /\ runs # <<>>
    /\ Len(db.data.todos) = 3
    /\ \E i \in DOMAIN db.data.todos :
          /\ db.data.todos[i].id = lastStmt.id
          /\ db.data.todos[i].updated_at = lastStmt.time
          /\ lastStmt.updated_at < lastStmt.time
          /\ \E j \in DOMAIN db.data.todos :
                db.data.todos[j].updated_at < lastStmt.time

\* C7: every connection of a run executes PRAGMA foreign_keys = ON before
\* any other statement, the probe connection included.
C7_PragmaFirstOnEveryConnection ==
    \A log \in {probeLog, mainLog} :
        log # <<>> => log[1] = "PRAGMA foreign_keys = ON"

Tolerated == {"probe", "write_conn", "mkdir", "write_env", "cli"}

\* C8: when a tolerated sub-step raises (the probe, the write of
\* db_connection.txt, the write of db_visualizer/sqlite.env with the
\* creation of its directory, the CLI detection), the run is not aborted: it
\* goes on with the next step.
C8_ToleratedFailureNeverAborts ==
    raised \in Tolerated => pc \notin {"aborted", "faulted"}

\* C9: an upsert of a key that has a row keeps that row's id and created_at.
C9_UpsertKeepsIdAndCreatedAt ==
    (Committed /\ atStart.schema["app_info"] = "script") =>
        \A i \in DOMAIN atStart.data.app_info :
            atStart.data.app_info[i].key \in MetaKeys =>
                \E j \in DOMAIN db.data.app_info :
                    /\ db.data.app_info[j].key = atStart.data.app_info[i].key
                    /\ db.data.app_info[j].id = atStart.data.app_info[i].id
                    /\ db.data.app_info[j].created_at = atStart.data.app_info[i].created_at

InTransaction == {"upsert", "seed", "seed_insert", "commit"}

\* C10: when a run dies between its first upsert and its commit, the rows
\* persisted in app_info and todos are those the run found, and the tables
\* and the trigger it created are there.
C10_FaultPersistsNoRows ==
    (pc = "faulted" /\ raised \in InTransaction) =>
        /\ db.data = atStart.data
        /\ \A t \in Tables : db.schema[t] # "absent"
        /\ db.trigger

C10_Witness ==
    /\ pc = "faulted" /\ raised = "seed_insert" /\ k = 3
    /\ Len(txn.app_info) = 4
    /\ Len(txn.todos) = 2
    /\ db.data = NoData
    /\ ~origin.exists /\ Len(runs) = 1

====
